---- MODULE Spec2Model ----
(***************************************************************************)
(* Clouisle backend: the quota tracker (usage_tracker.py, tasks/usage.py), *)
(* the team-level model calls (llm/manager.py), the document ingestion     *)
(* state machine (tasks/knowledge_base.py and the knowledge_bases          *)
(* endpoints), the text chunker (document_processor.py) and the search     *)
(* (vector_store.py).                                                      *)
(***************************************************************************)
EXTENDS Integers, Sequences, FiniteSets, TLC

VARIABLES
    tm,        \* the stored TeamModel row of one (team, model) pair
    clock,     \* now(), in ticks
    last,      \* the last quota operation: what was called and how it ended
    calls,     \* two check_and_record_usage calls in flight: their loaded rows
    doc,       \* the stored Document row
    chunks,    \* the live DocumentChunk rows of the document, by chunk_index
    kb,        \* the stored KnowledgeBase row (its running totals)
    queue,     \* the dispatched Celery tasks no worker has started
    run,       \* the ingestion task a worker is running, with its loaded rows
    next_task, \* the id of the next dispatched task
    dlast,     \* the last document operation
    job,       \* the text and the configuration given to the chunker
    out,       \* what chunk_text returned for it
    srch,      \* one search: the store, the request and what search returned
    rrf        \* the last two calls of _merge_results_rrf

qvars == <<tm, clock, last, calls>>
dvars == <<doc, chunks, kb, queue, run, next_task, dlast>>
cvars == <<job, out>>
svars == <<srch, rrf>>
vars == <<tm, clock, last, calls, doc, chunks, kb, queue, run, next_task, dlast, job, out,
          srch, rrf>>

-----------------------------------------------------------------------------
(* Bounds of the quota model *)

MaxClock == 4        \* ticks the clock can advance
MaxTokens == 1       \* largest tokens_used / tokens_needed of one call
MaxRequests == 2     \* largest request_count of one call
MaxUsed == 3         \* cap of the used counters (record_usage is unchecked)

(* A null column (limit or reset time) *)
Null == -1

TicksPerDay == 2
DaysPerMonth == 2

today_start(now) == (now \div TicksPerDay) * TicksPerDay
month_start(now) == (now \div (TicksPerDay * DaysPerMonth)) * (TicksPerDay * DaysPerMonth)

DailyTokenLimits == {Null, 2}
MonthlyTokenLimits == {Null, 3}
DailyRequestLimits == {Null, 2}
MonthlyRequestLimits == {Null, 3}

-----------------------------------------------------------------------------
(* UsageTracker *)

\* DailyResetNeeded comparing with the current time instead of the day's start
DailyResetNeededSinceNow(r, now) ==
    r.daily_reset_at = Null \/ r.daily_reset_at < now

\* _reset_daily_if_needed: the condition, and the record it leaves
DailyResetNeeded(r, now) ==
    r.daily_reset_at = Null \/ r.daily_reset_at < today_start(now)

_reset_daily_if_needed(r, now) ==
    IF DailyResetNeeded(r, now)
    THEN [r EXCEPT !.daily_tokens_used = 0,
                   !.daily_requests_used = 0,
                   !.daily_reset_at = now]
    ELSE r

MonthlyResetNeeded(r, now) ==
    r.monthly_reset_at = Null \/ r.monthly_reset_at < month_start(now)

_reset_monthly_if_needed(r, now) ==
    IF MonthlyResetNeeded(r, now)
    THEN [r EXCEPT !.monthly_tokens_used = 0,
                   !.monthly_requests_used = 0,
                   !.monthly_reset_at = now]
    ELSE r

\* both lazy resets, as check_quota, record_usage and get_usage_stats run them
LazyReset(r, now) == _reset_monthly_if_needed(_reset_daily_if_needed(r, now), now)

\* QuotaType with the daily token boundary made exclusive
QuotaTypeExclusive(r, tokens_needed) ==
    IF r.daily_token_limit # Null
       /\ r.daily_tokens_used + tokens_needed >= r.daily_token_limit
    THEN "daily_token"
    ELSE IF r.monthly_token_limit # Null
            /\ r.monthly_tokens_used + tokens_needed > r.monthly_token_limit
    THEN "monthly_token"
    ELSE IF r.daily_request_limit # Null
            /\ r.daily_requests_used >= r.daily_request_limit
    THEN "daily_request"
    ELSE IF r.monthly_request_limit # Null
            /\ r.monthly_requests_used >= r.monthly_request_limit
    THEN "monthly_request"
    ELSE "none"

\* QuotaType with the request checks run before the token checks
QuotaTypeRequestsFirst(r, tokens_needed) ==
    IF r.daily_request_limit # Null
       /\ r.daily_requests_used >= r.daily_request_limit
    THEN "daily_request"
    ELSE IF r.monthly_request_limit # Null
            /\ r.monthly_requests_used >= r.monthly_request_limit
    THEN "monthly_request"
    ELSE IF r.daily_token_limit # Null
            /\ r.daily_tokens_used + tokens_needed > r.daily_token_limit
    THEN "daily_token"
    ELSE IF r.monthly_token_limit # Null
            /\ r.monthly_tokens_used + tokens_needed > r.monthly_token_limit
    THEN "monthly_token"
    ELSE "none"

\* the four limit checks of check_quota, in the order of the code;
\* "none" when no check raises
QuotaType(r, tokens_needed) ==
    IF r.daily_token_limit # Null
       /\ r.daily_tokens_used + tokens_needed > r.daily_token_limit
    THEN "daily_token"
    ELSE IF r.monthly_token_limit # Null
            /\ r.monthly_tokens_used + tokens_needed > r.monthly_token_limit
    THEN "monthly_token"
    ELSE IF r.daily_request_limit # Null
            /\ r.daily_requests_used >= r.daily_request_limit
    THEN "daily_request"
    ELSE IF r.monthly_request_limit # Null
            /\ r.monthly_requests_used >= r.monthly_request_limit
    THEN "monthly_request"
    ELSE "none"

\* check_quota on the stored row r: the row it leaves stored, and how it ends
check_quota(r, now, tokens_needed) ==
    IF ~r.is_enabled
    THEN [rec |-> r, outcome |-> "ValueError", quota_type |-> "none"]
    ELSE LET q == LazyReset(r, now)
             d == QuotaType(q, tokens_needed)
         IN  [rec |-> q,
              outcome |-> IF d = "none" THEN "ok" ELSE "QuotaExceeded",
              quota_type |-> d]

\* the four increments shared by record_usage and check_and_record_usage
AddUsage(r, tokens_used, request_count) ==
    [r EXCEPT !.daily_tokens_used = @ + tokens_used,
              !.monthly_tokens_used = @ + tokens_used,
              !.daily_requests_used = @ + request_count,
              !.monthly_requests_used = @ + request_count]

record_usage(r, now, tokens_used, request_count) ==
    [rec |-> AddUsage(LazyReset(r, now), tokens_used, request_count),
     outcome |-> "ok", quota_type |-> "none"]

\* check_and_record_usage adding the usage before the check
check_and_record_usage_add_first(r, now, tokens_used, request_count) ==
    LET c == check_quota(r, now, tokens_used)
    IN  IF c.outcome = "ValueError"
        THEN c
        ELSE [c EXCEPT !.rec = AddUsage(c.rec, tokens_used, request_count)]

check_and_record_usage(r, now, tokens_used, request_count) ==
    LET c == check_quota(r, now, tokens_used)
    IN  IF c.outcome = "ok"
        THEN [c EXCEPT !.rec = AddUsage(c.rec, tokens_used, request_count)]
        ELSE c

get_usage_stats(r, now) ==
    [rec |-> LazyReset(r, now), outcome |-> "ok", quota_type |-> "none"]

\* tasks/usage.py: the sweeps; a NULL reset time does not match the __lt filter
reset_daily_usage(r, now) ==
    IF r.daily_reset_at # Null /\ r.daily_reset_at < today_start(now)
    THEN [r EXCEPT !.daily_tokens_used = 0,
                   !.daily_requests_used = 0,
                   !.daily_reset_at = now]
    ELSE r

reset_monthly_usage(r, now) ==
    IF r.monthly_reset_at # Null /\ r.monthly_reset_at < month_start(now)
    THEN [r EXCEPT !.monthly_tokens_used = 0,
                   !.monthly_requests_used = 0,
                   !.monthly_reset_at = now]
    ELSE r

-----------------------------------------------------------------------------
(* Documents, chunks and the knowledge base: bounds and pure helpers *)

MaxChunks == 2        \* live chunks of the document
MaxPipeline == 1      \* chunks one pipeline run produces

\* ids of the process, reprocess, rechunk and process-with-chunks requests of
\* one behaviour (each may dispatch one task)
TaskIds == {1, 2}

\* token_count (len(content) // 4) of a chunk the pipeline, a request or
\* create_document_chunk stores, and of a chunk after update_document_chunk
ChunkTokenCounts == {1}
UpdatedTokenCounts == {1}
\* chunk_index values a process-with-chunks request carries (ge=0), and the
\* number of chunks in it (min_length=1)
ClientIndexes == {0, 1}
RequestLengths == {1, 2}

\* after_index = NoAfterIndex: the query parameter is absent (None)
NoAfterIndex == -9

PENDING == "pending"
PROCESSING == "processing"
COMPLETED == "completed"
ERROR == "error"

RECURSIVE SumTokens(_)
SumTokens(chs) ==
    IF chs = <<>> THEN 0 ELSE Head(chs).token_count + SumTokens(Tail(chs))

\* rows come back ordered by chunk_index (Meta.ordering, order_by("chunk_index"))
ChunkBefore(a, b) ==
    \/ a.chunk_index < b.chunk_index
    \/ a.chunk_index = b.chunk_index /\ a.token_count <= b.token_count

RECURSIVE InsertChunk(_, _)
InsertChunk(chs, c) ==
    IF chs = <<>> THEN <<c>>
    ELSE IF ChunkBefore(c, Head(chs)) THEN <<c>> \o chs
    ELSE <<Head(chs)>> \o InsertChunk(Tail(chs), c)

RECURSIVE OrderByIndex(_)
OrderByIndex(chs) ==
    IF chs = <<>> THEN <<>> ELSE InsertChunk(OrderByIndex(Tail(chs)), Head(chs))

\* chunk_text enumerates its chunks from 0; store_chunks creates one row per chunk
\* with the chunk's index (n chunks of t tokens each)
store_chunks(n, t) == [i \in 1..n |-> [chunk_index |-> i - 1, token_count |-> t]]

\* process_document_with_chunks: the rows created from the request's chunks;
\* a chunk whose stripped content is empty is skipped, the index is the client's
RECURSIVE chunks_created(_)
chunks_created(input) ==
    IF input = <<>> THEN <<>>
    ELSE IF Head(input).blank
    THEN chunks_created(Tail(input))
    ELSE <<[chunk_index |-> Head(input).chunk_index,
            token_count |-> Head(input).token_count]>>
         \o chunks_created(Tail(input))

\* create_document_chunk: the index of the new chunk
new_index(chs, after_index) ==
    IF after_index # NoAfterIndex THEN after_index + 1 ELSE Len(chs)

\* create_document_chunk: the shift of the chunks at or after the new index
shift_subsequent(chs, after_index) ==
    IF after_index # NoAfterIndex
    THEN [i \in 1..Len(chs) |->
            IF chs[i].chunk_index >= after_index + 1
            THEN [chs[i] EXCEPT !.chunk_index = @ + 1]
            ELSE chs[i]]
    ELSE chs

\* delete_document_chunk: the bulk update of the chunks after the deleted one
reindex_remaining(chs, deleted_index) ==
    [i \in 1..Len(chs) |->
        IF chs[i].chunk_index > deleted_index
        THEN [chs[i] EXCEPT !.chunk_index = @ - 1]
        ELSE chs[i]]

RemoveAt(chs, i) == SubSeq(chs, 1, i - 1) \o SubSeq(chs, i + 1, Len(chs))

Max0(x) == IF x > 0 THEN x ELSE 0

NoTask == 0

NewDocument == [exists |-> TRUE, status |-> PENDING, chunk_count |-> 0,
                token_count |-> 0, task_id |-> NoTask, embed_task_id |-> NoTask]
NewKnowledgeBase == [total_chunks |-> 0, total_tokens |-> 0]
NoRun == [kind |-> "none", id |-> NoTask, d |-> NewDocument, k |-> NewKnowledgeBase]
NoOp == [op |-> "none", outcome |-> "none"]

DocIdle ==
    /\ doc = NewDocument
    /\ chunks = <<>>
    /\ kb = NewKnowledgeBase
    /\ queue = {}
    /\ run = NoRun
    /\ next_task = 1
    /\ dlast = NoOp

\* a TeamModel row as created: no limit, nothing used, never reset
NewTeamModel ==
    [daily_token_limit |-> Null, monthly_token_limit |-> Null,
     daily_request_limit |-> Null, monthly_request_limit |-> Null,
     daily_tokens_used |-> 0, monthly_tokens_used |-> 0,
     daily_requests_used |-> 0, monthly_requests_used |-> 0,
     daily_reset_at |-> Null, monthly_reset_at |-> Null,
     is_enabled |-> TRUE]

\* the two callers of the interleaved calls, and a call not yet begun
Callers == {1, 2}
NotCalled == [pc |-> "idle", row |-> NewTeamModel, tokens |-> 0, requests |-> 0,
              outcome |-> "none"]
NoCalls == [start |-> NewTeamModel, of |-> [c \in Callers |-> NotCalled]]

QuotaIdle ==
    /\ tm = NewTeamModel
    /\ calls = NoCalls
    /\ clock = 0
    /\ last = [op |-> "none", outcome |-> "none", quota_type |-> "none",
               tokens |-> 0, requests |-> 0]

-----------------------------------------------------------------------------
(* The text chunker (TextChunker).  A string is a sequence of characters.   *)
(* Every splitting function returns the chunks together with, for each      *)
(* chunk, the tail of the previous chunk that was carried into it.          *)

MaxLen == 9                  \* length of the text given to chunk_text

Chars == {"a", "\n", "#"}
Whitespace == {" ", "\n"}
ChunkSizes == {1, 2}
ChunkOverlaps == {0, 1}
SeparatorLists == {<< >>, << <<"#">> >>, << <<"\n">> >>}

Texts == UNION {[1..n -> Chars] : n \in 0..MaxLen}

DEFAULT_SEPARATORS ==
    << <<"\n", "\n">>, <<"\n">>, <<"U+3002">>, <<"U+FF01">>, <<"U+FF1F">>,
       <<".", " ">>, <<"!", " ">>, <<"?", " ">>, <<"U+FF1B">>, <<";", " ">>,
       <<"U+FF0C">>, <<",", " ">>, <<" ">>, << >> >>

chars_per_token == 4

Range(s) == {s[i] : i \in 1..Len(s)}
MinOf(S) == CHOOSE x \in S : \A y \in S : x <= y
SelectFrom(s, keep) ==
    LET F[i \in 0..Len(s)] ==
            IF i = 0 THEN << >>
            ELSE IF s[i] \in keep THEN Append(F[i - 1], s[i]) ELSE F[i - 1]
    IN F[Len(s)]

IsPrefix(p, s) == Len(p) <= Len(s) /\ SubSeq(s, 1, Len(p)) = p
IsSuffix(p, s) == Len(p) <= Len(s) /\ SubSeq(s, Len(s) - Len(p) + 1, Len(s)) = p

\* text.strip() is empty
IsBlank(text) == \A i \in 1..Len(text) : text[i] \in Whitespace

\* text[start:end] of Python, negative offsets counted from the end
SliceIndex(n, i) == IF i < 0 THEN (IF n + i < 0 THEN 0 ELSE n + i)
                    ELSE IF i > n THEN n ELSE i
Slice(text, start, end) ==
    SubSeq(text, SliceIndex(Len(text), start) + 1, SliceIndex(Len(text), end))

\* text.split(separator) for a non-empty separator
RECURSIVE Split(_, _)
Split(text, separator) ==
    LET n == Len(separator)
        hits == {i \in 1..(Len(text) - n + 1) : SubSeq(text, i, i + n - 1) = separator}
    IN IF hits = {} THEN <<text>>
       ELSE LET i == MinOf(hits)
            IN <<SubSeq(text, 1, i - 1)>>
               \o Split(SubSeq(text, i + n, Len(text)), separator)

\* list(text)
CharList(text) == [i \in 1..Len(text) |-> <<text[i]>>]

\* separator.join(pieces)
RECURSIVE Join(_, _)
Join(pieces, separator) ==
    IF pieces = << >> THEN << >>
    ELSE IF Len(pieces) = 1 THEN pieces[1]
    ELSE pieces[1] \o separator \o Join(Tail(pieces), separator)

\* re.split of the alternation of the separators, the separators kept:
\* at each position the first separator of the list that matches is taken
RECURSIVE re_split(_, _, _)
re_split(text, separators, pending) ==
    IF text = << >> THEN <<pending>>
    ELSE LET m == {k \in 1..Len(separators) : IsPrefix(separators[k], text)}
         IN IF m = {}
            THEN re_split(Tail(text), separators, Append(pending, Head(text)))
            ELSE LET sep == separators[MinOf(m)]
                 IN <<pending, sep>>
                    \o re_split(SubSeq(text, Len(sep) + 1, Len(text)), separators, << >>)

estimate_tokens(text) == Len(text) \div chars_per_token

NoChunks == [chunks |-> << >>, tails |-> << >>]
OneChunk(text) == [chunks |-> <<text>>, tails |-> << << >> >>]

\* the test that admits one more split into the overlap
overlap_fits_always(size, overlap) == TRUE
overlap_fits(size, overlap) == size <= overlap

\* the splits of current_chunk carried into the next chunk: taken from the
\* end for as long as their sizes, separators included, total at most overlap
RECURSIVE overlap_tokens(_, _, _, _)
overlap_tokens(current_chunk, separator, overlap, overlap_size) ==
    IF current_chunk = << >> THEN << >>
    ELSE LET s == current_chunk[Len(current_chunk)]
             size == overlap_size + Len(s) + Len(separator)
         IN IF overlap_fits(size, overlap)
            THEN Append(overlap_tokens(SubSeq(current_chunk, 1, Len(current_chunk) - 1),
                                       separator, overlap, size), s)
            ELSE << >>

RECURSIVE SizeOf(_, _)
SizeOf(pieces, separator) ==
    IF pieces = << >> THEN 0
    ELSE Len(Head(pieces)) + Len(separator) + SizeOf(Tail(pieces), separator)

\* the loop of _merge_splits from split i on; st holds chunks, tails,
\* current_chunk, current_size and the tail carried into current_chunk
RECURSIVE merge_from(_, _, _, _, _, _)
merge_from(splits, i, separator, target_size, overlap, st) ==
    IF i > Len(splits)
    THEN LET chunk_text == Join(st.current_chunk, separator)
         IN IF st.current_chunk # << >> /\ chunk_text # << >>
            THEN [chunks |-> Append(st.chunks, chunk_text),
                  tails |-> Append(st.tails, st.tail)]
            ELSE [chunks |-> st.chunks, tails |-> st.tails]
    ELSE LET split == splits[i]
             split_size == Len(split) + Len(separator)
             emit == st.current_size + split_size > target_size
                     /\ st.current_chunk # << >>
             kept == IF overlap > 0
                     THEN overlap_tokens(st.current_chunk, separator, overlap, 0)
                     ELSE << >>
             s1 == IF emit
                   THEN [chunks |-> Append(st.chunks, Join(st.current_chunk, separator)),
                         tails |-> Append(st.tails, st.tail),
                         current_chunk |-> kept,
                         current_size |-> SizeOf(kept, separator),
                         tail |-> Join(kept, separator)]
                   ELSE st
         IN merge_from(splits, i + 1, separator, target_size, overlap,
                       [s1 EXCEPT !.current_chunk = Append(s1.current_chunk, split),
                                  !.current_size = s1.current_size + split_size])

_merge_splits(splits, separator, target_size, overlap) ==
    merge_from(splits, 1, separator, target_size, overlap,
               [chunks |-> << >>, tails |-> << >>, current_chunk |-> << >>,
                current_size |-> 0, tail |-> << >>])

\* the fixed-width fallback loop, from offset start; prev_end is the end of
\* the window before
RECURSIVE hard_split(_, _, _, _, _, _)
hard_split(text, start, prev_end, target_size, overlap, acc) ==
    IF ~(start < Len(text)) THEN acc
    ELSE LET end == IF start + target_size < Len(text)
                    THEN start + target_size ELSE Len(text)
             acc1 == [chunks |-> Append(acc.chunks, Slice(text, start, end)),
                      tails |-> Append(acc.tails, Slice(text, start, prev_end))]
         IN IF overlap > 0
            THEN IF end - overlap >= Len(text) - overlap THEN acc1
                 ELSE hard_split(text, end - overlap, end, target_size, overlap, acc1)
            ELSE IF end >= Len(text) THEN acc1
                 ELSE hard_split(text, end, end, target_size, overlap, acc1)

\* the loop over the separators, from separator k on: the first separator
\* that gives more than one split feeds _merge_splits
RECURSIVE split_with(_, _, _, _, _)
split_with(text, separators, k, target_size, overlap) ==
    IF k > Len(separators)
    THEN hard_split(text, 0, 0, target_size, overlap, NoChunks)
    ELSE LET separator == separators[k]
             splits == IF separator # << >> THEN Split(text, separator)
                       ELSE CharList(text)
         IN IF Len(splits) > 1
            THEN _merge_splits(splits, separator, target_size, overlap)
            ELSE split_with(text, separators, k + 1, target_size, overlap)

_split_recursive_with_separators(text, target_size, overlap, separators) ==
    IF Len(text) <= target_size
    THEN (IF text # << >> THEN OneChunk(text) ELSE NoChunks)
    ELSE split_with(text, separators, 1, target_size, overlap)

_split_recursive(text, target_size, overlap, separators) ==
    IF Len(text) <= target_size
    THEN (IF ~IsBlank(text) THEN OneChunk(text) ELSE NoChunks)
    ELSE split_with(text, separators, 1, target_size, overlap)

\* the parts of re.split reassembled: a separator starts a new section
RECURSIVE sections_of(_, _, _, _)
sections_of(parts, i, custom_separators, current_section) ==
    IF i > Len(parts)
    THEN (IF current_section # << >> THEN <<current_section>> ELSE << >>)
    ELSE IF parts[i] \in Range(custom_separators)
    THEN (IF current_section # << >> THEN <<current_section>> ELSE << >>)
         \o sections_of(parts, i + 1, custom_separators, parts[i])
    ELSE sections_of(parts, i + 1, custom_separators, current_section \o parts[i])

\* the loop over the sections, from section i on
RECURSIVE chunk_sections(_, _, _, _, _, _, _)
chunk_sections(sections, i, chunk_size, target_size, overlap, acc, previous_chunk_tail) ==
    IF i > Len(sections) THEN acc
    ELSE LET section == sections[i]
             sc == IF estimate_tokens(section) <= chunk_size
                   THEN OneChunk(section)
                   ELSE _split_recursive_with_separators(section, target_size, overlap,
                                                         DEFAULT_SEPARATORS)
             carry == previous_chunk_tail # << >> /\ overlap > 0 /\ sc.chunks # << >>
             section_chunks ==
                 IF carry THEN [sc.chunks EXCEPT ![1] = previous_chunk_tail \o @]
                 ELSE sc.chunks
             section_tails ==
                 IF carry THEN [sc.tails EXCEPT ![1] = previous_chunk_tail]
                 ELSE sc.tails
             last_chunk == section_chunks[Len(section_chunks)]
             tail == IF section_chunks = << >> THEN previous_chunk_tail
                     ELSE IF overlap > 0
                     THEN (IF Len(last_chunk) > overlap
                           THEN Slice(last_chunk, -overlap, Len(last_chunk))
                           ELSE last_chunk)
                     ELSE << >>
         IN chunk_sections(sections, i + 1, chunk_size, target_size, overlap,
                           [chunks |-> acc.chunks \o section_chunks,
                            tails |-> acc.tails \o section_tails],
                           tail)

_split_by_custom_separators(text, chunk_size, target_size, overlap, custom_separators) ==
    chunk_sections(sections_of(re_split(text, custom_separators, << >>), 1,
                               custom_separators, << >>),
                   1, chunk_size, target_size, overlap, NoChunks, << >>)

\* TextChunker(chunk_size, chunk_overlap, separators).chunk_text(text)
chunk_text(text, chunk_size, chunk_overlap, separators) ==
    LET custom_separators == SelectFrom(separators, Range(separators) \ {<< >>})
        all_separators ==
            custom_separators
            \o SelectFrom(DEFAULT_SEPARATORS,
                          Range(DEFAULT_SEPARATORS) \ Range(custom_separators))
        target_chars == chunk_size * chars_per_token
        overlap_chars == chunk_overlap * chars_per_token
        res == IF IsBlank(text) THEN NoChunks
               ELSE IF custom_separators # << >>
               THEN _split_by_custom_separators(text, chunk_size, target_chars,
                                                overlap_chars, custom_separators)
               ELSE _split_recursive(text, target_chars, overlap_chars, all_separators)
    IN [chunks |-> [idx \in 1..Len(res.chunks) |->
                       [content |-> res.chunks[idx],
                        chunk_index |-> idx - 1,
                        token_count |-> estimate_tokens(res.chunks[idx]),
                        char_count |-> Len(res.chunks[idx])]],
        tails |-> res.tails]

NoJob == [text |-> << >>, chunk_size |-> 1, chunk_overlap |-> 0, separators |-> << >>]
NoOutput == [done |-> FALSE, chunks |-> << >>, tails |-> << >>]

ChunkIdle ==
    /\ job = NoJob
    /\ out = NoOutput

-----------------------------------------------------------------------------
(* Search (VectorStore).  A score is an integer number of ten-thousandths;  *)
(* the sums of reciprocal ranks are kept as fractions.                       *)

MaxRank == 2                 \* length of a result list given to _merge_results_rrf

RrfChunkIds == {1, 2, 3}
RRF_K == 60

ScoreOne == 10000

FracSum(a, b) == [num |-> a.num * b.den + b.num * a.den, den |-> a.den * b.den]
FracMax(a, b) == IF a.num * b.den < b.num * a.den THEN b ELSE a
FracLess(a, b) == a.num * b.den < b.num * a.den
FracZero == [num |-> 0, den |-> 1]

\* round(x / y, 4) in ten-thousandths
Round4(x, y) == (2 * ScoreOne * x + y) \div (2 * y)

\* rrf_score of the result at a rank (ranks count from 0)
rrf_score(k, rank) == [num |-> 1, den |-> k + rank + 1]

\* scores[chunk_id] = scores.get(chunk_id, 0) + rrf_score
rrf_add_max(score, term) == FracMax(score, term)
rrf_add(score, term) == FracSum(score, term)

\* the scores dict after one loop over a result list
RECURSIVE rrf_accumulate(_, _, _, _)
rrf_accumulate(scores, results, i, k) ==
    IF i > Len(results) THEN scores
    ELSE LET chunk_id == results[i].chunk_id
             old == IF chunk_id \in DOMAIN scores THEN scores[chunk_id] ELSE FracZero
             new == rrf_add(old, rrf_score(k, i - 1))
         IN rrf_accumulate([c \in DOMAIN scores \cup {chunk_id} |->
                               IF c = chunk_id THEN new ELSE scores[c]],
                           results, i + 1, k)

\* the keys of the scores dict in insertion order
RECURSIVE rrf_keys(_, _)
rrf_keys(results, seen) ==
    IF results = << >> THEN << >>
    ELSE IF Head(results).chunk_id \in seen THEN rrf_keys(Tail(results), seen)
    ELSE <<Head(results).chunk_id>>
         \o rrf_keys(Tail(results), seen \cup {Head(results).chunk_id})

\* the insertion of a sort that is not stable: a key goes before its equals
RECURSIVE rrf_insert_before_equal(_, _, _)
rrf_insert_before_equal(sorted, id, scores) ==
    IF sorted = << >> THEN <<id>>
    ELSE IF ~FracLess(scores[id], scores[Head(sorted)]) THEN <<id>> \o sorted
    ELSE <<Head(sorted)>> \o rrf_insert_before_equal(Tail(sorted), id, scores)

\* sorted(keys, key=scores, reverse=True): stable, equal scores keep their order
RECURSIVE rrf_insert(_, _, _)
rrf_insert(sorted, id, scores) ==
    IF sorted = << >> THEN <<id>>
    ELSE IF FracLess(scores[Head(sorted)], scores[id]) THEN <<id>> \o sorted
    ELSE <<Head(sorted)>> \o rrf_insert(Tail(sorted), id, scores)

RECURSIVE rrf_sorted(_, _, _)
rrf_sorted(keys, i, scores) ==
    IF i = 0 THEN << >>
    ELSE rrf_insert(rrf_sorted(keys, i - 1, scores), keys[i], scores)

\* result_map[chunk_id]: the first result seen for the chunk
FirstResult(results, chunk_id) ==
    results[CHOOSE i \in 1..Len(results) :
                /\ results[i].chunk_id = chunk_id
                /\ \A j \in 1..(i - 1) : results[j].chunk_id # chunk_id]

\* round(min(1.0, score / max_rrf), 4) with max_rrf = 2.0 / (k + 1)
rrf_normalized(score, k) ==
    LET r == Round4(score.num * (k + 1), 2 * score.den)
    IN IF r > ScoreOne THEN ScoreOne ELSE r

_merge_results_rrf(vector_results, fulltext_results, k) ==
    LET scores == rrf_accumulate(rrf_accumulate(<< >>, vector_results, 1, k),
                                 fulltext_results, 1, k)
        all == vector_results \o fulltext_results
        keys == rrf_keys(all, {})
        sorted_ids == rrf_sorted(keys, Len(keys), scores)
    IN [n \in 1..Len(sorted_ids) |->
           [FirstResult(all, sorted_ids[n]) EXCEPT
               !.score = rrf_normalized(scores[sorted_ids[n]], k),
               !.search_type = "hybrid"]]

MaxStore == 7                \* chunks of the knowledge base
MaxTopK == 1                 \* largest top_k of a search

\* a chunk row as the search sees it: its document, the query terms its
\* content contains, and whether its content contains the whole query
ChunkKinds ==
    { [document_id |-> 1, terms |-> {}, phrase |-> FALSE],
      [document_id |-> 1, terms |-> {1}, phrase |-> FALSE],
      [document_id |-> 1, terms |-> {1, 2}, phrase |-> FALSE],
      [document_id |-> 2, terms |-> {1, 2}, phrase |-> FALSE] }
\* rows come back ordered by (document_id, chunk_index)
Stores ==
    { s \in UNION {[1..n -> ChunkKinds] : n \in 0..MaxStore} :
          \A i \in 1..(Len(s) - 1) : s[i].document_id <= s[i + 1].document_id }
QueryTerms == { <<1, 2>> }
SearchModes == {"vector", "fulltext", "hybrid"}
ScoreThresholds == {0, 5000}
DocFilters == { {}, {1} }
EmbedOutcomes == {"ok", "Exception", "QuotaExceededError"}

TermLimit == 5
CandidateFactor == 3
SingleModeFactor == 2

\* except Exception around embed_query in _vector_search
embedding_error_quota_escapes(outcome) == outcome = "Exception"
embedding_error_swallowed(outcome) == outcome \in {"Exception", "QuotaExceededError"}

_quick_similarity_score(query_terms, chunk) ==
    LET n == Len(query_terms)
        matches == Cardinality({i \in 1..n : query_terms[i] \in chunk.terms})
        base_score == (ScoreOne * matches) \div n
        capped(x) == IF x > ScoreOne THEN ScoreOne ELSE x
    IN IF n = 0 THEN 0
       ELSE IF matches = 0 THEN 0
       ELSE IF chunk.phrase THEN capped(base_score + 3000)
       ELSE IF 10 * matches >= 8 * n THEN capped(base_score + 1000)
       ELSE capped((9 * ScoreOne * matches) \div (10 * n))

\* the rows the database query returns: the chunks of the knowledge base, of
\* the filtered documents when a filter is given, that contain one of the
\* first five terms, cut at limit * 3 rows
RECURSIVE TakeWhere(_, _, _, _)
TakeWhere(store, i, keep(_), room) ==
    IF i > Len(store) \/ room = 0 THEN << >>
    ELSE IF keep(i) THEN <<i>> \o TakeWhere(store, i + 1, keep, room - 1)
    ELSE TakeWhere(store, i + 1, keep, room)

candidate_chunks(store, query_terms, limit, filter_doc_ids) ==
    LET first_terms == SubSeq(query_terms, 1,
                              IF Len(query_terms) < TermLimit THEN Len(query_terms)
                              ELSE TermLimit)
        keep(i) ==
            /\ filter_doc_ids # {} => store[i].document_id \in filter_doc_ids
            /\ query_terms # << >> =>
                 \E t \in 1..Len(first_terms) : first_terms[t] \in store[i].terms
    IN TakeWhere(store, 1, keep, limit * CandidateFactor)

\* results.sort(key=score, reverse=True): stable
RECURSIVE InsertByScore(_, _)
InsertByScore(sorted, r) ==
    IF sorted = << >> THEN <<r>>
    ELSE IF Head(sorted).score < r.score THEN <<r>> \o sorted
    ELSE <<Head(sorted)>> \o InsertByScore(Tail(sorted), r)

RECURSIVE SortByScore(_, _)
SortByScore(results, i) ==
    IF i = 0 THEN << >> ELSE InsertByScore(SortByScore(results, i - 1), results[i])

FirstN(s, n) == SubSeq(s, 1, IF Len(s) < n THEN Len(s) ELSE n)

\* the body shared by _vector_search and _fulltext_search
RECURSIVE scored_results(_, _, _, _, _)
scored_results(store, ids, i, query_terms, search_type) ==
    IF i > Len(ids) THEN << >>
    ELSE LET chunk == store[ids[i]]
             score == _quick_similarity_score(query_terms, chunk)
             rest == scored_results(store, ids, i + 1, query_terms, search_type)
         IN IF score > 0
            THEN <<[chunk_id |-> ids[i], document_id |-> chunk.document_id,
                    score |-> score, search_type |-> search_type]>> \o rest
            ELSE rest

_fulltext_search(store, query_terms, limit, filter_doc_ids) ==
    LET ids == candidate_chunks(store, query_terms, limit, filter_doc_ids)
        results == scored_results(store, ids, 1, query_terms, "fulltext")
    IN FirstN(SortByScore(results, Len(results)), limit)

_vector_search(embed, store, query_terms, limit, filter_doc_ids) ==
    IF embed # "ok" /\ ~embedding_error_swallowed(embed)
    THEN [raised |-> TRUE, results |-> << >>]
    ELSE LET ids == candidate_chunks(store, query_terms, limit, filter_doc_ids)
             results == scored_results(store, ids, 1, query_terms, "vector")
         IN [raised |-> FALSE,
             results |-> FirstN(SortByScore(results, Len(results)), limit)]

search(embed, store, query_terms, search_mode, top_k, score_threshold, filter_doc_ids) ==
    LET v == _vector_search(embed, store, query_terms,
                            IF search_mode = "vector" THEN top_k * SingleModeFactor
                            ELSE top_k, filter_doc_ids)
        f == _fulltext_search(store, query_terms,
                              IF search_mode = "fulltext" THEN top_k * SingleModeFactor
                              ELSE top_k, filter_doc_ids)
        results == IF search_mode = "vector" THEN v.results
                   ELSE IF search_mode = "fulltext" THEN f
                   ELSE _merge_results_rrf(v.results, f, RRF_K)
        kept == IF score_threshold > 0
                THEN SelectSeq(results, LAMBDA r : r.score >= score_threshold)
                ELSE results
    IN IF search_mode # "fulltext" /\ v.raised
       THEN [raised |-> TRUE, results |-> << >>]
       ELSE [raised |-> FALSE, results |-> FirstN(kept, top_k)]

NoMerge == [vector_results |-> << >>, fulltext_results |-> << >>, merged |-> << >>]
NoSearch == [store |-> << >>, query_terms |-> << >>, search_mode |-> "fulltext",
             top_k |-> 1, score_threshold |-> 0, filter_doc_ids |-> {},
             embed |-> "ok", done |-> FALSE, raised |-> FALSE, results |-> << >>]

SearchIdle ==
    /\ srch = NoSearch
    /\ rrf = [current |-> NoMerge, previous |-> NoMerge]

-----------------------------------------------------------------------------
(* The quota state machine: calls on one record, one at a time *)

NoCall == [op |-> "none", outcome |-> "none", quota_type |-> "none",
           tokens |-> 0, requests |-> 0]

TeamModelRows ==
    [daily_token_limit : DailyTokenLimits,
     monthly_token_limit : MonthlyTokenLimits,
     daily_request_limit : DailyRequestLimits,
     monthly_request_limit : MonthlyRequestLimits,
     daily_tokens_used : {0}, monthly_tokens_used : {0},
     daily_requests_used : {0}, monthly_requests_used : {0},
     daily_reset_at : {Null}, monthly_reset_at : {Null},
     is_enabled : BOOLEAN]

QuotaInit ==
    /\ tm \in TeamModelRows
    /\ clock = 0
    /\ last = NoCall
    /\ calls = NoCalls
    /\ DocIdle
    /\ ChunkIdle
    /\ SearchIdle

WithinCap(r) ==
    /\ r.daily_tokens_used <= MaxUsed
    /\ r.monthly_tokens_used <= MaxUsed
    /\ r.daily_requests_used <= MaxUsed
    /\ r.monthly_requests_used <= MaxUsed

Finish(op, res, t, n) ==
    /\ WithinCap(res.rec)
    /\ tm' = res.rec
    /\ last' = [op |-> op, outcome |-> res.outcome, quota_type |-> res.quota_type,
                tokens |-> t, requests |-> n]
    /\ UNCHANGED <<clock, calls, dvars, cvars, svars>>

CheckQuota ==
    \E t \in 0..MaxTokens :
        Finish("check_quota", check_quota(tm, clock, t), t, 0)

RecordUsage ==
    \E t \in 0..MaxTokens, n \in 1..MaxRequests :
        Finish("record_usage", record_usage(tm, clock, t, n), t, n)

CheckAndRecordUsage ==
    \E t \in 0..MaxTokens, n \in 1..MaxRequests :
        Finish("check_and_record_usage", check_and_record_usage(tm, clock, t, n), t, n)

GetUsageStats ==
    Finish("get_usage_stats", get_usage_stats(tm, clock), 0, 0)

ResetDailyUsage ==
    /\ tm' = reset_daily_usage(tm, clock)
    /\ last' = [NoCall EXCEPT !.op = "reset_daily_usage", !.outcome = "ok"]
    /\ UNCHANGED <<clock, calls, dvars, cvars, svars>>

ResetMonthlyUsage ==
    /\ tm' = reset_monthly_usage(tm, clock)
    /\ last' = [NoCall EXCEPT !.op = "reset_monthly_usage", !.outcome = "ok"]
    /\ UNCHANGED <<clock, calls, dvars, cvars, svars>>

Tick ==
    /\ clock < MaxClock
    /\ clock' = clock + 1
    /\ last' = [NoCall EXCEPT !.op = "tick"]
    /\ UNCHANGED <<tm, calls, dvars, cvars, svars>>

QuotaNext ==
    \/ CheckQuota
    \/ RecordUsage
    \/ CheckAndRecordUsage
    \/ GetUsageStats
    \/ ResetDailyUsage
    \/ ResetMonthlyUsage
    \/ Tick

SpecQuota == QuotaInit /\ [][QuotaNext]_vars

-----------------------------------------------------------------------------
(* Team-level model calls (ModelManager.team_embed, team_chat,              *)
(* team_chat_stream): pre-call check_quota, the provider call, then the      *)
(* check-and-record of the tokens used, inside the handler's try block       *)

\* what the text of an exception is about, as _handle_error reads it
ProviderFailures == {"authentication", "rate limit", "context length",
                     "content filter", "other"}
QuotaMessage == "quota exceeded"

\* _handle_error: the error class chosen from the text of the exception
_handle_error(message) ==
    IF message = "authentication" THEN "AuthenticationError"
    ELSE IF message = "rate limit" THEN "RateLimitError"
    ELSE IF message = "context length" THEN "ContextLengthError"
    ELSE IF message = "content filter" THEN "ContentFilterError"
    ELSE "ProviderError"

\* the except clause around the provider call and the recording:
\* except Exception catches the quota error raised inside the try block
raised_from_try(error, message) == _handle_error(message)

\* one team-level call on the stored row r: the row it leaves stored, the
\* error that reaches the caller with the dimension it carries, and the
\* dimension whose quota rejected the call
team_call(r, now, provider, tokens_used) ==
    LET pre == check_quota(r, now, 0)
        post == check_and_record_usage(pre.rec, now, tokens_used, 1)
    IN IF ~r.is_enabled
       THEN [rec |-> r, outcome |-> "ModelDisabledError", quota_type |-> "none",
             exhausted |-> "none"]
       ELSE IF pre.outcome = "QuotaExceeded"
       THEN [rec |-> pre.rec, outcome |-> "LLMQuotaExceededError",
             quota_type |-> pre.quota_type, exhausted |-> pre.quota_type]
       ELSE IF provider # "ok"
       THEN [rec |-> pre.rec, outcome |-> raised_from_try("Exception", provider),
             quota_type |-> "none", exhausted |-> "none"]
       ELSE IF post.outcome = "QuotaExceeded"
       THEN LET error == raised_from_try("LLMQuotaExceededError", QuotaMessage)
            IN [rec |-> post.rec, outcome |-> error,
                quota_type |-> IF error = "LLMQuotaExceededError"
                               THEN post.quota_type ELSE "none",
                exhausted |-> post.quota_type]
       ELSE [rec |-> post.rec, outcome |-> "ok", quota_type |-> "none",
             exhausted |-> "none"]

TeamCall ==
    \E provider \in {"ok"} \cup ProviderFailures, t \in 1..MaxTokens :
        LET res == team_call(tm, clock, provider, t)
        IN /\ WithinCap(res.rec)
           /\ tm' = res.rec
           /\ last' = [op |-> "team_call", outcome |-> res.outcome,
                       quota_type |-> res.quota_type, tokens |-> t, requests |-> 1,
                       exhausted |-> res.exhausted]
           /\ UNCHANGED <<clock, calls, dvars, cvars, svars>>

TeamNext ==
    \/ TeamCall
    \/ RecordUsage
    \/ ResetDailyUsage
    \/ ResetMonthlyUsage
    \/ Tick

SpecTeam == QuotaInit /\ [][TeamNext]_vars

-----------------------------------------------------------------------------
(* Two check_and_record_usage calls on one record, interleaved.  A call      *)
(* loads the row (_get_team_model), works on its loaded copy and writes the  *)
(* whole copy back with save(); there is no transaction and no row lock, so  *)
(* the other call can run between the load and each save.  The clock stands  *)
(* still: both calls fall in one day.                                         *)

\* rows a record can hold when the calls begin: as created, or after one
\* recorded call earlier in the day
RaceRows == TeamModelRows \cup {record_usage(r, 0, 1, 1).rec : r \in TeamModelRows}

RaceInit ==
    /\ tm \in RaceRows
    /\ clock = 0
    /\ last = NoCall
    /\ calls = [start |-> tm, of |-> [c \in Callers |-> NotCalled]]
    /\ DocIdle
    /\ ChunkIdle
    /\ SearchIdle

\* team_model = await self._get_team_model(team_id, model_id)
LoadTeamModel ==
    \E c \in Callers, t \in 0..MaxTokens, n \in 1..MaxRequests :
        /\ calls.of[c].pc = "idle"
        /\ calls' = [calls EXCEPT !.of[c] = [pc |-> "loaded", row |-> tm,
                                             tokens |-> t, requests |-> n,
                                             outcome |-> "none"]]
        /\ UNCHANGED <<tm, clock, last, dvars, cvars, svars>>

\* check_quota on a disabled record: ValueError, nothing is written
DisabledValueError ==
    \E c \in Callers :
        /\ calls.of[c].pc = "loaded"
        /\ ~calls.of[c].row.is_enabled
        /\ calls' = [calls EXCEPT !.of[c].pc = "done", !.of[c].outcome = "ValueError"]
        /\ last' = [op |-> "check_and_record_usage", outcome |-> "ValueError",
                    quota_type |-> "none", tokens |-> calls.of[c].tokens,
                    requests |-> calls.of[c].requests]
        /\ UNCHANGED <<tm, clock, dvars, cvars, svars>>

\* check_quota: a lazy reset took place on the loaded copy, the copy is saved
SaveAfterReset ==
    \E c \in Callers :
        /\ calls.of[c].pc = "loaded"
        /\ calls.of[c].row.is_enabled
        /\ LazyReset(calls.of[c].row, clock) # calls.of[c].row
        /\ tm' = LazyReset(calls.of[c].row, clock)
        /\ calls' = [calls EXCEPT !.of[c].pc = "reset", !.of[c].row = tm']
        /\ UNCHANGED <<clock, last, dvars, cvars, svars>>

\* the rest of the call on the loaded copy: the four checks, then the
\* increments and save(), or QuotaExceededError with nothing written
CheckAndSave ==
    \E c \in Callers :
        LET call == calls.of[c]
            res == check_and_record_usage(call.row, clock, call.tokens, call.requests)
        IN  /\ call.pc \in {"loaded", "reset"}
            /\ call.row.is_enabled
            /\ LazyReset(call.row, clock) = call.row
            /\ WithinCap(res.rec)
            /\ tm' = IF res.outcome = "ok" THEN res.rec ELSE tm
            /\ calls' = [calls EXCEPT !.of[c].pc = "done",
                                      !.of[c].outcome = res.outcome]
            /\ last' = [op |-> "check_and_record_usage", outcome |-> res.outcome,
                        quota_type |-> res.quota_type, tokens |-> call.tokens,
                        requests |-> call.requests]
            /\ UNCHANGED <<clock, dvars, cvars, svars>>

RaceNext ==
    \/ LoadTeamModel
    \/ DisabledValueError
    \/ SaveAfterReset
    \/ CheckAndSave

SpecRace == RaceInit /\ [][RaceNext]_vars

-----------------------------------------------------------------------------
(* The document state machine: endpoints (one action each) and Celery tasks *)

DocInit == DocIdle /\ QuotaIdle /\ ChunkIdle /\ SearchIdle

\* celery_app.control.revoke(id, terminate=True): when it takes effect the task
\* is dropped from the queue, or killed if a worker is running it
Revoked(id, effective) ==
    /\ queue' = IF effective THEN {t \in queue : t.id # id} ELSE queue
    /\ run' = IF effective /\ run.id = id THEN NoRun ELSE run

\* task.delay(): the task is queued with a fresh id
Dispatch(q, kind) == q \cup {[id |-> next_task, kind |-> kind]}

\* the status checks of the endpoints
process_allowed(status) == status = PENDING
rechunk_allowed_always(status) == TRUE
rechunk_allowed(status) == status # PROCESSING
process_with_chunks_allowed(status) == status # PROCESSING

\* POST .../process
process_document ==
    /\ doc.exists /\ process_allowed(doc.status)
    /\ next_task \in TaskIds
    /\ \E dispatched \in BOOLEAN :
        /\ queue' = IF dispatched THEN Dispatch(queue, "process") ELSE queue
        /\ doc' = IF dispatched THEN [doc EXCEPT !.task_id = next_task] ELSE doc
        /\ next_task' = next_task + 1
    /\ dlast' = [op |-> "process", outcome |-> "ok"]
    /\ UNCHANGED <<chunks, kb, run, qvars, cvars, svars>>

\* POST .../reprocess
reprocess_document ==
    /\ doc.exists
    /\ next_task \in TaskIds
    /\ \E effective \in BOOLEAN, dispatched \in BOOLEAN :
        LET revoke == effective /\ doc.task_id # NoTask
                      /\ doc.status \in {PENDING, PROCESSING}
            q == IF revoke THEN {t \in queue : t.id # doc.task_id} ELSE queue
        IN  /\ run' = IF revoke /\ run.id = doc.task_id THEN NoRun ELSE run
            /\ queue' = IF dispatched THEN Dispatch(q, "reprocess") ELSE q
            /\ doc' = [doc EXCEPT !.status = PENDING,
                                  !.task_id = IF dispatched THEN next_task ELSE @]
            /\ next_task' = next_task + 1
    /\ dlast' = [op |-> "reprocess", outcome |-> "ok"]
    /\ UNCHANGED <<chunks, kb, qvars, cvars, svars>>

\* POST .../rechunk
rechunk_document ==
    /\ doc.exists /\ rechunk_allowed(doc.status)
    /\ next_task \in TaskIds
    /\ \E effective \in BOOLEAN, dispatched \in BOOLEAN :
        LET revoke == effective /\ doc.task_id # NoTask /\ doc.status = PENDING
            q == IF revoke THEN {t \in queue : t.id # doc.task_id} ELSE queue
        IN  /\ run' = IF revoke /\ run.id = doc.task_id THEN NoRun ELSE run
            /\ queue' = IF dispatched THEN Dispatch(q, "rechunk") ELSE q
            /\ doc' = [doc EXCEPT !.status = PENDING,
                                  !.task_id = IF dispatched THEN next_task ELSE @]
            /\ next_task' = next_task + 1
    /\ dlast' = [op |-> "rechunk", outcome |-> "ok"]
    /\ UNCHANGED <<chunks, kb, qvars, cvars, svars>>

ChunkInputs ==
    [blank : {TRUE}, chunk_index : ClientIndexes, token_count : {0}]
    \cup [blank : {FALSE}, chunk_index : ClientIndexes, token_count : ChunkTokenCounts]

Requests == UNION {[1..n -> ChunkInputs] : n \in RequestLengths}

\* after_index of create_document_chunk: absent, or any integer
AfterIndexes == {NoAfterIndex, -1, 0, 1}

\* POST .../process-with-chunks
process_document_with_chunks ==
    /\ doc.exists /\ process_with_chunks_allowed(doc.status)
    /\ next_task \in TaskIds
    /\ \E request \in Requests, effective \in BOOLEAN, dispatched \in BOOLEAN :
        LET revoke == effective /\ doc.embed_task_id # NoTask
            q == IF revoke THEN {t \in queue : t.id # doc.embed_task_id} ELSE queue
            created == chunks_created(request)
        IN  /\ run' = IF revoke /\ run.id = doc.embed_task_id THEN NoRun ELSE run
            /\ chunks' = OrderByIndex(created)
            /\ queue' = IF dispatched THEN Dispatch(q, "embed") ELSE q
            /\ doc' = [doc EXCEPT
                         !.status = IF dispatched THEN PROCESSING ELSE ERROR,
                         !.chunk_count = Len(created),
                         !.token_count = SumTokens(created),
                         !.embed_task_id = IF dispatched THEN next_task ELSE @]
            /\ dlast' = [op |-> "process_with_chunks",
                         outcome |-> IF dispatched THEN "ok" ELSE "error"]
            /\ next_task' = next_task + 1
    /\ UNCHANGED <<kb, qvars, cvars, svars>>

\* DELETE .../documents/{doc_id}
delete_document ==
    /\ doc.exists
    /\ \E effective \in BOOLEAN :
        Revoked(doc.task_id,
                effective /\ doc.task_id # NoTask
                /\ doc.status \in {PENDING, PROCESSING})
    /\ chunks' = <<>>
    /\ kb' = [total_chunks |-> Max0(kb.total_chunks - doc.chunk_count),
              total_tokens |-> Max0(kb.total_tokens - doc.token_count)]
    /\ doc' = [doc EXCEPT !.exists = FALSE]
    /\ dlast' = [op |-> "delete_document", outcome |-> "ok"]
    /\ UNCHANGED <<next_task, qvars, cvars, svars>>

\* POST .../chunks?after_index=
create_document_chunk ==
    /\ doc.exists
    /\ Len(chunks) < MaxChunks
    /\ \E after_index \in AfterIndexes, t \in ChunkTokenCounts :
        /\ chunks' = OrderByIndex(
                        Append(shift_subsequent(chunks, after_index),
                               [chunk_index |-> new_index(chunks, after_index),
                                token_count |-> t]))
        /\ doc' = [doc EXCEPT !.chunk_count = @ + 1, !.token_count = @ + t]
        /\ kb' = [total_chunks |-> kb.total_chunks + 1,
                  total_tokens |-> kb.total_tokens + t]
    /\ dlast' = [op |-> "create_chunk", outcome |-> "ok"]
    /\ UNCHANGED <<queue, run, next_task, qvars, cvars, svars>>

\* DELETE .../chunks/{chunk_id}
delete_document_chunk ==
    /\ doc.exists
    /\ \E i \in 1..Len(chunks) :
        /\ kb' = [total_chunks |-> Max0(kb.total_chunks - 1),
                  total_tokens |-> Max0(kb.total_tokens - chunks[i].token_count)]
        /\ doc' = [doc EXCEPT !.chunk_count = Max0(@ - 1),
                              !.token_count = Max0(@ - chunks[i].token_count)]
        /\ chunks' = OrderByIndex(
                        reindex_remaining(RemoveAt(chunks, i), chunks[i].chunk_index))
    /\ dlast' = [op |-> "delete_chunk", outcome |-> "ok"]
    /\ UNCHANGED <<queue, run, next_task, qvars, cvars, svars>>

\* PUT .../chunks/{chunk_id}
update_document_chunk ==
    /\ doc.exists
    /\ \E i \in 1..Len(chunks), t \in UpdatedTokenCounts :
        /\ chunks' = OrderByIndex([chunks EXCEPT ![i].token_count = t])
        /\ doc' = [doc EXCEPT !.token_count = @ + (t - chunks[i].token_count)]
        /\ kb' = [kb EXCEPT !.total_tokens = @ + (t - chunks[i].token_count)]
    /\ dlast' = [op |-> "update_chunk", outcome |-> "ok"]
    /\ UNCHANGED <<queue, run, next_task, qvars, cvars, svars>>

\* a worker takes a queued task whose document is gone: the task returns
task_document_not_found ==
    /\ run = NoRun
    /\ ~doc.exists
    /\ \E t \in queue : queue' = queue \ {t}
    /\ dlast' = [op |-> "task_not_found", outcome |-> "error"]
    /\ UNCHANGED <<doc, chunks, kb, run, next_task, qvars, cvars, svars>>

\* process_document_task up to the extraction: loads the rows, marks processing
process_document_task_begin ==
    /\ run = NoRun
    /\ doc.exists
    /\ \E t \in queue :
        /\ t.kind = "process"
        /\ queue' = queue \ {t}
        /\ doc' = [doc EXCEPT !.status = PROCESSING]
        /\ run' = [kind |-> "process", id |-> t.id, d |-> doc', k |-> kb]
    /\ dlast' = [op |-> "process_task_begin", outcome |-> "ok"]
    /\ UNCHANGED <<chunks, kb, next_task, qvars, cvars, svars>>

\* reprocess_document_task: deletes the chunks, subtracts the document's counts
\* from the knowledge base, zeroes them, then calls process_document_task
reprocess_document_task_begin ==
    /\ run = NoRun
    /\ doc.exists
    /\ \E t \in queue :
        /\ t.kind = "reprocess"
        /\ queue' = queue \ {t}
        /\ chunks' = <<>>
        /\ kb' = [total_chunks |-> kb.total_chunks - doc.chunk_count,
                  total_tokens |-> kb.total_tokens - doc.token_count]
        /\ doc' = [doc EXCEPT !.chunk_count = 0, !.token_count = 0,
                              !.status = PROCESSING]
        /\ run' = [kind |-> "process", id |-> t.id, d |-> doc', k |-> kb']
    /\ dlast' = [op |-> "reprocess_task_begin", outcome |-> "ok"]
    /\ UNCHANGED <<next_task, qvars, cvars, svars>>

\* rechunk_document_task up to the extraction: marks processing, deletes the
\* chunks, subtracts the document's counts from the knowledge base
rechunk_document_task_begin ==
    /\ run = NoRun
    /\ doc.exists
    /\ \E t \in queue :
        /\ t.kind = "rechunk"
        /\ queue' = queue \ {t}
        /\ chunks' = <<>>
        /\ kb' = [total_chunks |-> Max0(kb.total_chunks - doc.chunk_count),
                  total_tokens |-> Max0(kb.total_tokens - doc.token_count)]
        /\ doc' = [doc EXCEPT !.status = PROCESSING]
        /\ run' = [kind |-> "rechunk", id |-> t.id, d |-> doc', k |-> kb']
    /\ dlast' = [op |-> "rechunk_task_begin", outcome |-> "ok"]
    /\ UNCHANGED <<next_task, qvars, cvars, svars>>

\* the rest of process_document_task / rechunk_document_task, success: the chunks
\* are stored, the loaded document and knowledge base rows are saved
task_completed ==
    /\ run # NoRun
    /\ doc.exists
    /\ \E n \in 1..MaxPipeline, t \in ChunkTokenCounts :
        LET created == store_chunks(n, t)
        IN  /\ Len(chunks) + n <= MaxChunks
            /\ chunks' = OrderByIndex(chunks \o created)
            /\ doc' = [run.d EXCEPT !.status = COMPLETED,
                                    !.chunk_count = Len(created),
                                    !.token_count = SumTokens(created)]
            /\ kb' = [total_chunks |-> run.k.total_chunks + Len(created),
                      total_tokens |-> run.k.total_tokens + SumTokens(created)]
    /\ run' = NoRun
    /\ dlast' = [op |-> "task_end", outcome |-> COMPLETED]
    /\ UNCHANGED <<queue, next_task, qvars, cvars, svars>>

\* the rest of the task, failure (extraction, no chunks, embedding or quota):
\* the except branch saves the loaded document row with status error
task_failed ==
    /\ run # NoRun
    /\ doc' = IF doc.exists THEN [run.d EXCEPT !.status = ERROR] ELSE doc
    /\ run' = NoRun
    /\ dlast' = [op |-> "task_end", outcome |-> ERROR]
    /\ UNCHANGED <<chunks, kb, queue, next_task, qvars, cvars, svars>>

\* embed_document_chunks_task: no chunks, it returns; else it marks the document
\* completed and adds the chunks to the knowledge base totals
embed_document_chunks_task ==
    /\ run = NoRun
    /\ doc.exists
    /\ \E t \in queue :
        /\ t.kind = "embed"
        /\ queue' = queue \ {t}
    /\ IF chunks = <<>>
       THEN /\ dlast' = [op |-> "embed_task", outcome |-> "no_chunks"]
            /\ UNCHANGED <<doc, kb>>
       ELSE /\ doc' = [doc EXCEPT !.status = COMPLETED]
            /\ kb' = [total_chunks |-> kb.total_chunks + Len(chunks),
                      total_tokens |-> kb.total_tokens + doc.token_count]
            /\ dlast' = [op |-> "embed_task", outcome |-> COMPLETED]
    /\ UNCHANGED <<chunks, run, next_task, qvars, cvars, svars>>

DocNext ==
    \/ process_document
    \/ reprocess_document
    \/ rechunk_document
    \/ process_document_with_chunks
    \/ delete_document
    \/ create_document_chunk
    \/ delete_document_chunk
    \/ update_document_chunk
    \/ task_document_not_found
    \/ process_document_task_begin
    \/ reprocess_document_task_begin
    \/ rechunk_document_task_begin
    \/ task_completed
    \/ task_failed
    \/ embed_document_chunks_task

SpecDoc == DocInit /\ [][DocNext]_vars

-----------------------------------------------------------------------------
(* The same endpoints and tasks with no two operations overlapping in time:   *)
(* a request is served only when no task is queued or running                  *)

NoTaskPending == queue = {} /\ run = NoRun

process_document_alone == NoTaskPending /\ process_document
reprocess_document_alone == NoTaskPending /\ reprocess_document
rechunk_document_alone == NoTaskPending /\ rechunk_document
delete_document_alone == NoTaskPending /\ delete_document
create_document_chunk_alone == NoTaskPending /\ create_document_chunk
delete_document_chunk_alone == NoTaskPending /\ delete_document_chunk
update_document_chunk_alone == NoTaskPending /\ update_document_chunk

DocSeqNext ==
    \/ process_document_alone
    \/ reprocess_document_alone
    \/ rechunk_document_alone
    \/ delete_document_alone
    \/ create_document_chunk_alone
    \/ delete_document_chunk_alone
    \/ update_document_chunk_alone
    \/ process_document_task_begin
    \/ reprocess_document_task_begin
    \/ rechunk_document_task_begin
    \/ task_completed
    \/ task_failed

SpecDocSeq == DocInit /\ [][DocSeqNext]_vars

-----------------------------------------------------------------------------
(* The chunker applied to one text under one configuration *)

ChunkInit ==
    /\ job \in [text : Texts, chunk_size : ChunkSizes,
                chunk_overlap : ChunkOverlaps, separators : SeparatorLists]
    /\ out = NoOutput
    /\ DocIdle
    /\ QuotaIdle
    /\ SearchIdle

ChunkText ==
    /\ ~out.done
    /\ LET r == chunk_text(job.text, job.chunk_size, job.chunk_overlap, job.separators)
       IN out' = [done |-> TRUE, chunks |-> r.chunks, tails |-> r.tails]
    /\ UNCHANGED <<job, qvars, dvars, svars>>

ChunkNext == ChunkText

SpecChunk == ChunkInit /\ [][ChunkNext]_vars

-----------------------------------------------------------------------------
(* The fixed-width fallback loop of _split_recursive, one window at a step.  *)
(* TextChunker checks neither chunk_size nor chunk_overlap, so the           *)
(* configurations start at 0.                                                 *)

MaxFallbackLen == 3      \* length of the text
MaxFallbackSize == 2     \* largest chunk_size and chunk_overlap
MaxWindows == 3          \* windows the loop is followed for

FallbackTexts == UNION {[1..n -> {"a", " "}] : n \in 0..MaxFallbackLen}

\* the for loop over self.separators finds one that gives more than one split
some_separator_splits(text) ==
    \E k \in 1..Len(DEFAULT_SEPARATORS) :
        LET separator == DEFAULT_SEPARATORS[k]
        IN Len(IF separator # << >> THEN Split(text, separator) ELSE CharList(text)) > 1

FallbackInit ==
    /\ job \in [text : FallbackTexts, chunk_size : 0..MaxFallbackSize,
                chunk_overlap : 0..MaxFallbackSize]
    /\ out = [pc |-> "called", start |-> 0, windows |-> 0]
    /\ DocIdle
    /\ QuotaIdle
    /\ SearchIdle

\* chunk_text and _split_recursive down to the fallback: a blank text, a text
\* within the target size and a text some separator splits return without it
EnterSplitRecursive ==
    /\ out.pc = "called"
    /\ out' = [out EXCEPT !.pc =
                   IF IsBlank(job.text)
                      \/ Len(job.text) <= job.chunk_size * chars_per_token
                      \/ some_separator_splits(job.text)
                   THEN "returned" ELSE "fallback"]
    /\ UNCHANGED <<job, qvars, dvars, svars>>

\* one turn of `while start < len(text)`: a window is appended, start moves
FallbackWindow ==
    /\ out.pc = "fallback"
    /\ out.start < Len(job.text)
    /\ out.windows < MaxWindows
    /\ LET target_size == job.chunk_size * chars_per_token
           overlap == job.chunk_overlap * chars_per_token
           end == IF out.start + target_size < Len(job.text)
                  THEN out.start + target_size ELSE Len(job.text)
           start == IF overlap > 0 THEN end - overlap ELSE end
           break == IF overlap > 0 THEN start >= Len(job.text) - overlap
                    ELSE start >= Len(job.text)
       IN out' = [pc |-> IF break THEN "returned" ELSE "fallback",
                  start |-> start, windows |-> out.windows + 1]
    /\ UNCHANGED <<job, qvars, dvars, svars>>

FallbackNext ==
    \/ EnterSplitRecursive
    \/ FallbackWindow

SpecFallback == FallbackInit /\ [][FallbackNext]_vars

-----------------------------------------------------------------------------
(* Preview of the chunks against the chunks the processing task stores.       *)
(* A separator is a string; the empty string stands for None (both are false  *)
(* in the tests the code makes).  A missing number is Null.                   *)

MaxPreviewLen == 6
PreviewTexts == UNION {[1..n -> {"a", "#"}] : n \in 0..MaxPreviewLen}
NoSeparator == << >>
PreviewSeparators == {NoSeparator, <<"#">>}
DEFAULT_CHUNK_SIZE == 500
DEFAULT_CHUNK_OVERLAP == 50

\* ChunkPreviewRequest; the same three settings are sent in the ProcessRequest
PreviewRequests ==
    [chunk_size : ChunkSizes, chunk_overlap : ChunkOverlaps,
     separator : PreviewSeparators]

\* kb.settings: None, or the dump of KnowledgeBaseSettings with its three keys
NoKbSettings == [present |-> FALSE, chunk_size |-> Null, chunk_overlap |-> Null,
                 separator |-> NoSeparator]
KbSettings ==
    {NoKbSettings}
    \cup [present : {TRUE}, chunk_size : ChunkSizes, chunk_overlap : ChunkOverlaps,
          separator : PreviewSeparators]

\* the metadata of an uploaded document holds no chunk setting
NoSettings == [chunk_size |-> Null, chunk_overlap |-> Null, separator |-> NoSeparator]

\* preview_document_chunks: TextChunker built from the request itself
preview_chunks(text, preview_in) ==
    chunk_text(text, preview_in.chunk_size, preview_in.chunk_overlap,
               IF preview_in.separator # NoSeparator
               THEN <<preview_in.separator>> ELSE << >>).chunks

\* process_document: each setting of the request that is not None is written
\* into the document's metadata
stored_settings(metadata, process_in) ==
    [chunk_size |-> IF process_in.chunk_size # Null
                    THEN process_in.chunk_size ELSE metadata.chunk_size,
     chunk_overlap |-> IF process_in.chunk_overlap # Null
                       THEN process_in.chunk_overlap ELSE metadata.chunk_overlap,
     separator |-> IF process_in.separator # NoSeparator
                   THEN process_in.separator ELSE metadata.separator]

\* Python's `a or b` on an optional number: None and 0 are false
number_or(a, b) == IF a # Null /\ a # 0 THEN a ELSE b
separator_or(a, b) == IF a # NoSeparator THEN a ELSE b

\* process_document_task: the settings of the chunker, the metadata first and
\* the knowledge base's settings as the fallback
task_settings(doc_meta, kb_settings) ==
    [chunk_size |->
         number_or(doc_meta.chunk_size,
                   IF kb_settings.present THEN kb_settings.chunk_size
                   ELSE DEFAULT_CHUNK_SIZE),
     chunk_overlap |->
         number_or(doc_meta.chunk_overlap,
                   IF kb_settings.present THEN kb_settings.chunk_overlap
                   ELSE DEFAULT_CHUNK_OVERLAP),
     separator |-> separator_or(doc_meta.separator, kb_settings.separator)]

\* process_document_task: the chunks of the text under the task's settings,
\* handed to store_chunks, which creates one row for each
task_chunks(text, st) ==
    chunk_text(text, st.chunk_size, st.chunk_overlap,
               IF st.separator # NoSeparator THEN <<st.separator>> ELSE << >>).chunks

PreviewInit ==
    /\ job \in [text : PreviewTexts, request : PreviewRequests,
                kb_settings : KbSettings, metadata : {NoSettings},
                status : {PENDING}]
    /\ out = [previewed |-> FALSE, preview |-> << >>,
              stored |-> FALSE, rows |-> << >>]
    /\ DocIdle
    /\ QuotaIdle
    /\ SearchIdle

\* POST .../preview-chunks with the request's settings
PreviewDocumentChunks ==
    /\ ~out.previewed
    /\ out' = [out EXCEPT !.previewed = TRUE,
                          !.preview = preview_chunks(job.text, job.request)]
    /\ UNCHANGED <<job, qvars, dvars, svars>>

\* POST .../process with the same settings: they go into the metadata
ProcessDocumentSettings ==
    /\ job.status = PENDING
    /\ job.metadata = NoSettings
    /\ ~out.stored
    /\ job' = [job EXCEPT !.metadata = stored_settings(@, job.request),
                          !.status = PROCESSING]
    /\ UNCHANGED <<out, qvars, dvars, svars>>

\* process_document_task: chunks the text and stores the chunks
ProcessDocumentTaskChunks ==
    /\ job.status = PROCESSING
    /\ out' = [out EXCEPT
                   !.stored = TRUE,
                   !.rows = task_chunks(job.text,
                                        task_settings(job.metadata, job.kb_settings))]
    /\ job' = [job EXCEPT !.status = IF out'.rows = << >> THEN ERROR ELSE COMPLETED]
    /\ UNCHANGED <<qvars, dvars, svars>>

PreviewNext ==
    \/ PreviewDocumentChunks
    \/ ProcessDocumentSettings
    \/ ProcessDocumentTaskChunks

SpecPreview == PreviewInit /\ [][PreviewNext]_vars

-----------------------------------------------------------------------------
(* The settings process_document_task chunks with, for the values the API    *)
(* accepts: a ProcessRequest whose fields may be absent, a knowledge base    *)
(* with or without settings                                                   *)

ApiChunkSizes == {100, 500, 1000}
ApiChunkOverlaps == {0, 50, 100}
ProcessRequests ==
    [chunk_size : {Null} \cup ApiChunkSizes,
     chunk_overlap : {Null} \cup ApiChunkOverlaps,
     separator : {NoSeparator}]
ApiKbSettings ==
    {NoKbSettings}
    \cup [present : {TRUE}, chunk_size : {100, 800}, chunk_overlap : {0, 20},
          separator : {NoSeparator}]

SettingsInit ==
    /\ job \in [process_in : ProcessRequests, kb_settings : ApiKbSettings,
                metadata : {NoSettings}, status : {PENDING}]
    /\ out = [stored |-> FALSE, used |-> NoSettings]
    /\ DocIdle
    /\ QuotaIdle
    /\ SearchIdle

\* POST .../process: the request's settings go into the metadata
StoreProcessSettings ==
    /\ job.status = PENDING
    /\ job' = [job EXCEPT !.metadata = stored_settings(@, job.process_in),
                          !.status = PROCESSING]
    /\ UNCHANGED <<out, qvars, dvars, svars>>

\* process_document_task: the settings it builds its TextChunker with
ReadTaskSettings ==
    /\ job.status = PROCESSING
    /\ ~out.stored
    /\ out' = [stored |-> TRUE,
               used |-> task_settings(job.metadata, job.kb_settings)]
    /\ UNCHANGED <<job, qvars, dvars, svars>>

SettingsNext ==
    \/ StoreProcessSettings
    \/ ReadTaskSettings

SpecSettings == SettingsInit /\ [][SettingsNext]_vars

-----------------------------------------------------------------------------
(* _merge_results_rrf applied to pairs of result lists, two calls remembered *)

RrfResultLists ==
    { s \in UNION {[1..n -> [chunk_id : RrfChunkIds, document_id : {1},
                             score : {ScoreOne}, search_type : {"vector"}]] :
                   n \in 0..MaxRank} :
          \A i, j \in 1..Len(s) : i # j => s[i].chunk_id # s[j].chunk_id }

RrfInit ==
    /\ SearchIdle
    /\ DocIdle
    /\ QuotaIdle
    /\ ChunkIdle

MergeResultsRrf ==
    /\ \E v \in RrfResultLists, f \in RrfResultLists :
          rrf' = [previous |-> rrf.current,
                  current |-> [vector_results |-> v, fulltext_results |-> f,
                               merged |-> _merge_results_rrf(v, f, RRF_K)]]
    /\ UNCHANGED <<srch, qvars, dvars, cvars>>

RrfNext == MergeResultsRrf

SpecRrf == RrfInit /\ [][RrfNext]_vars

-----------------------------------------------------------------------------
(* One search of a knowledge base *)

SearchInit ==
    /\ srch \in { s \in [store : Stores, query_terms : QueryTerms,
                         search_mode : SearchModes, top_k : 1..MaxTopK,
                         score_threshold : ScoreThresholds,
                         filter_doc_ids : DocFilters, embed : EmbedOutcomes,
                         done : {FALSE}, raised : {FALSE}, results : {<< >>}] :
                      s.search_mode = "fulltext" => s.embed = "ok" }
    /\ rrf = [current |-> NoMerge, previous |-> NoMerge]
    /\ DocIdle
    /\ QuotaIdle
    /\ ChunkIdle

Search ==
    /\ ~srch.done
    /\ LET r == search(srch.embed, srch.store, srch.query_terms, srch.search_mode,
                       srch.top_k, srch.score_threshold, srch.filter_doc_ids)
       IN srch' = [srch EXCEPT !.done = TRUE, !.raised = r.raised,
                               !.results = r.results]
    /\ UNCHANGED <<rrf, qvars, dvars, cvars>>

SearchNext == Search

SpecSearch == SearchInit /\ [][SearchNext]_vars



-----------------------------------------------------------------------------
(* Properties of the quota tracker *)

Used(r) == <<r.daily_tokens_used, r.monthly_tokens_used,
             r.daily_requests_used, r.monthly_requests_used>>

DimOrder == <<"daily_token", "monthly_token", "daily_request", "monthly_request">>

\* dimension d of record r is violated by a call that needs t tokens
Violated(d, r, t) ==
    CASE d = "daily_token" ->
            r.daily_token_limit # Null /\ r.daily_tokens_used + t > r.daily_token_limit
      [] d = "monthly_token" ->
            r.monthly_token_limit # Null /\ r.monthly_tokens_used + t > r.monthly_token_limit
      [] d = "daily_request" ->
            r.daily_request_limit # Null /\ r.daily_requests_used >= r.daily_request_limit
      [] d = "monthly_request" ->
            r.monthly_request_limit # Null /\ r.monthly_requests_used >= r.monthly_request_limit

OthersPermit(r, t) ==
    \A d \in {"monthly_token", "daily_request", "monthly_request"} : ~Violated(d, r, t)

\* C1: with a non-null daily token limit L and U tokens used in the current day,
\* check_and_record_usage(t) succeeds exactly when U + t <= L (the other
\* dimensions permitting) and then stores U + t; otherwise it raises
\* QuotaExceeded with dimension daily_token.
C1_DailyTokenBoundary ==
    [][ ( /\ last'.op = "check_and_record_usage"
          /\ tm.is_enabled
          /\ tm.daily_token_limit # Null
          /\ ~DailyResetNeeded(tm, clock)
          /\ OthersPermit(LazyReset(tm, clock), last'.tokens) )
        =>
        ( /\ (last'.outcome = "ok")
                <=> (tm.daily_tokens_used + last'.tokens <= tm.daily_token_limit)
          /\ last'.outcome = "ok"
                => tm'.daily_tokens_used = tm.daily_tokens_used + last'.tokens
          /\ last'.outcome # "ok"
                => last'.outcome = "QuotaExceeded" /\ last'.quota_type = "daily_token" )
      ]_vars

\* a successful call with t >= 1 that filled the daily token limit exactly
C1_Witness ==
    /\ last.op = "check_and_record_usage"
    /\ last.outcome = "ok"
    /\ last.tokens >= 1
    /\ tm.daily_token_limit # Null
    /\ tm.daily_tokens_used = tm.daily_token_limit

\* C2 as stated: a check_and_record_usage call that raises QuotaExceeded leaves
\* the four used counters exactly as they were, for every prior state.
C2_Original ==
    [][ (last'.op = "check_and_record_usage" /\ last'.outcome = "QuotaExceeded")
        => Used(tm') = Used(tm) ]_vars

\* C2 amended: a check_and_record_usage call that raises QuotaExceeded adds no
\* usage; a counter whose window is current is left as it was, and a counter
\* whose day (month) window has lapsed is zeroed by the lazy reset.
C2_Amended ==
    [][ (last'.op = "check_and_record_usage" /\ last'.outcome = "QuotaExceeded")
        =>
        ( /\ tm'.daily_tokens_used =
                IF DailyResetNeeded(tm, clock) THEN 0 ELSE tm.daily_tokens_used
          /\ tm'.daily_requests_used =
                IF DailyResetNeeded(tm, clock) THEN 0 ELSE tm.daily_requests_used
          /\ tm'.monthly_tokens_used =
                IF MonthlyResetNeeded(tm, clock) THEN 0 ELSE tm.monthly_tokens_used
          /\ tm'.monthly_requests_used =
                IF MonthlyResetNeeded(tm, clock) THEN 0 ELSE tm.monthly_requests_used )
      ]_vars

\* a raising call with t >= 1 that found used daily tokens in a current window
C2_Witness ==
    /\ last.op = "check_and_record_usage"
    /\ last.outcome = "QuotaExceeded"
    /\ last.tokens >= 1
    /\ tm.daily_tokens_used > 0
    /\ tm.daily_reset_at # Null /\ tm.daily_reset_at < clock

\* C3: after every successful check_and_record_usage call (any tokens_used >= 0,
\* any request_count >= 1) each used counter with a non-null limit is <= it.
C3_Original ==
    (last.op = "check_and_record_usage" /\ last.outcome = "ok")
    =>
    ( /\ tm.daily_token_limit # Null => tm.daily_tokens_used <= tm.daily_token_limit
      /\ tm.monthly_token_limit # Null => tm.monthly_tokens_used <= tm.monthly_token_limit
      /\ tm.daily_request_limit # Null => tm.daily_requests_used <= tm.daily_request_limit
      /\ tm.monthly_request_limit # Null
            => tm.monthly_requests_used <= tm.monthly_request_limit )

\* C8: the daily (monthly) counters are zeroed once per boundary crossing:
\* (a) a touch leaves the windows current, (b) the first touch or sweep after a
\* boundary zeroes the counters and stamps the reset time, and (c) while the
\* stamped reset time lies in the current day (month) no step zeroes them or
\* moves the stamp.
Touches == {"check_quota", "record_usage", "check_and_record_usage"}

C9_FirstViolatedDimension ==
    (last.op = "check_quota" /\ last.outcome # "ValueError")
    =>
    IF \E i \in 1..4 : Violated(DimOrder[i], tm, last.tokens)
    THEN /\ last.outcome = "QuotaExceeded"
         /\ \E i \in 1..4 :
               /\ last.quota_type = DimOrder[i]
               /\ Violated(DimOrder[i], tm, last.tokens)
               /\ \A j \in 1..(i - 1) : ~Violated(DimOrder[j], tm, last.tokens)
    ELSE last.outcome = "ok" /\ last.quota_type = "none"

\* a check_quota call that found a token and a request dimension violated at once
C9_Witness ==
    /\ last.op = "check_quota"
    /\ last.outcome = "QuotaExceeded"
    /\ last.quota_type = "monthly_token"
    /\ Violated("daily_request", tm, last.tokens)
    /\ Violated("monthly_request", tm, last.tokens)

-----------------------------------------------------------------------------
(* Properties of the document state machine *)

TaskBegins == {"process_task_begin", "reprocess_task_begin", "rechunk_task_begin"}

C5_Original ==
    (dlast.op \in {"task_end", "embed_task"} /\ dlast.outcome = COMPLETED)
    => (Len(chunks) >= 1 /\ doc.chunk_count >= 1)

\* C6: after every operation that creates or removes chunks the chunk_index
\* values of the live chunks are exactly 0..N-1.
C6_Original ==
    (doc.exists
     /\ dlast.op \in {"task_end", "process_with_chunks", "create_chunk", "delete_chunk"})
    => \A i \in 1..Len(chunks) : chunks[i].chunk_index = i - 1

\* C7: after every process, reprocess or rechunk run that ends completed, the
\* document's chunk_count is the number of its live chunks and its token_count
\* the sum of their token_count.
C7_Original ==
    (dlast.op = "task_end" /\ dlast.outcome = COMPLETED)
    => (doc.chunk_count = Len(chunks) /\ doc.token_count = SumTokens(chunks))

-----------------------------------------------------------------------------
(* Properties of the chunker *)

\* C10: with overlap > 0, every chunk after the first begins with the tail
\* carried from the chunk before it, that tail is a suffix of the chunk before
\* it, and it has at most overlap_chars = 4 * chunk_overlap characters.
C10_OverlapBound ==
    (out.done /\ job.chunk_overlap > 0)
    => \A i \in 2..Len(out.chunks) :
          /\ IsPrefix(out.tails[i], out.chunks[i].content)
          /\ IsSuffix(out.tails[i], out.chunks[i - 1].content)
          /\ Len(out.tails[i]) <= chars_per_token * job.chunk_overlap

\* a text split at a custom separator into three or more chunks, one of which
\* carries a non-empty tail shorter than the chunk before it
C10_Witness ==
    /\ out.done
    /\ job.chunk_overlap > 0
    /\ Len(out.chunks) >= 3
    /\ job.separators # << >>
    /\ \E i \in 2..Len(out.chunks) :
          /\ out.tails[i] # << >>
          /\ Len(out.tails[i]) < Len(out.chunks[i - 1].content)
          /\ Len(out.tails[i]) < Len(out.chunks[i].content)

\* the custom separators of the job and the sections the text is cut into
JobSeparators == SelectFrom(job.separators, Range(job.separators) \ {<< >>})
JobSections == sections_of(re_split(job.text, JobSeparators, << >>), 1, JobSeparators, << >>)
StartsAtSeparator(section) == \E k \in 1..Len(JobSeparators) : IsPrefix(JobSeparators[k], section)
\* chunk i without the tail carried into it
Body(i) == SubSeq(out.chunks[i].content, Len(out.tails[i]) + 1, Len(out.chunks[i].content))

\* C11: with custom separators, every section that starts at a custom separator
\* begins a chunk of its own: some chunk is the carried tail followed by a
\* non-empty beginning of the section (so by the separator), the whole section
\* when the section is within chunk_size.
C11_Original ==
    (out.done /\ JobSeparators # << >> /\ ~IsBlank(job.text))
    => \A k \in 1..Len(JobSections) :
          StartsAtSeparator(JobSections[k])
          => \E i \in 1..Len(out.chunks) :
                /\ i >= k
                /\ IsPrefix(out.tails[i], out.chunks[i].content)
                /\ Body(i) # << >>
                /\ IsPrefix(Body(i), JobSections[k])
                /\ (estimate_tokens(JobSections[k]) <= job.chunk_size
                    => Body(i) = JobSections[k])

\* C12: with overlap > 0 and no custom separators, every chunk after the first
\* starts with the last overlap_chars characters of the chunk before it (the
\* whole chunk when it is shorter), and no chunk is longer than
\* target_chars + overlap_chars.
C12_Original ==
    (out.done /\ job.chunk_overlap > 0 /\ job.separators = << >>)
    => /\ \A i \in 2..Len(out.chunks) :
             LET prev == out.chunks[i - 1].content
                 n == chars_per_token * job.chunk_overlap
             IN IsPrefix(Slice(prev, IF Len(prev) > n THEN Len(prev) - n ELSE 0, Len(prev)),
                         out.chunks[i].content)
       /\ \A i \in 1..Len(out.chunks) :
             out.chunks[i].char_count
                 <= chars_per_token * (job.chunk_size + job.chunk_overlap)

-----------------------------------------------------------------------------
(* Properties of the search *)

RrfCalls == {rrf.current, rrf.previous}
RankedAt(results, id, r) == r + 1 \in 1..Len(results) /\ results[r + 1].chunk_id = id
Listed(results, id) == \E i \in 1..Len(results) : results[i].chunk_id = id
BothAt(c, id, r) ==
    RankedAt(c.vector_results, id, r) /\ RankedAt(c.fulltext_results, id, r)
OnlyOneAt(c, id, r) ==
    \/ RankedAt(c.vector_results, id, r) /\ ~Listed(c.fulltext_results, id)
    \/ RankedAt(c.fulltext_results, id, r) /\ ~Listed(c.vector_results, id)
FusedScore(c, id) ==
    c.merged[CHOOSE i \in 1..Len(c.merged) : c.merged[i].chunk_id = id].score

\* C13: a chunk at rank r in both lists given to _merge_results_rrf gets a
\* strictly higher fused score than a chunk at rank r in only one of the lists
\* (of the same call or of another call).
C13_RrfBothBeatsOne ==
    \A ca \in RrfCalls, cb \in RrfCalls :
       \A a \in RrfChunkIds, b \in RrfChunkIds :
          \A r \in 0..(MaxRank - 1) :
             (BothAt(ca, a, r) /\ OnlyOneAt(cb, b, r))
             => FusedScore(ca, a) > FusedScore(cb, b)

\* one call ranked a chunk second in both lists, the other ranked a chunk
\* second in one list only
C13_Witness ==
    \E a \in RrfChunkIds, b \in RrfChunkIds :
       /\ BothAt(rrf.current, a, 1)
       /\ OnlyOneAt(rrf.previous, b, 1)
       /\ FusedScore(rrf.current, a) > FusedScore(rrf.previous, b)

\* the chunks a search is asked for: of the filtered documents when a filter
\* is given, containing a query term, scoring at least the threshold
ScoreOf(i) == _quick_similarity_score(srch.query_terms, srch.store[i])
Matching ==
    { i \in 1..Len(srch.store) :
        /\ srch.filter_doc_ids # {} => srch.store[i].document_id \in srch.filter_doc_ids
        /\ \E t \in 1..Len(srch.query_terms) : srch.query_terms[t] \in srch.store[i].terms
        /\ ScoreOf(i) >= srch.score_threshold }
Returned == { srch.results[n].chunk_id : n \in 1..Len(srch.results) }
ChunksAndScores(results) ==
    [n \in 1..Len(results) |-> <<results[n].chunk_id, results[n].score>>]

\* C14: in vector and fulltext mode search returns the top_k highest-scoring
\* matching chunks in non-increasing score order: at most top_k entries, all of
\* them matching, as many as there are matching chunks up to top_k, and no
\* omitted matching chunk scores strictly higher than a returned one.
C14_Original ==
    (srch.done /\ srch.search_mode \in {"vector", "fulltext"} /\ ~srch.raised)
    => /\ Len(srch.results) <= srch.top_k
       /\ \A n \in 1..(Len(srch.results) - 1) :
             srch.results[n].score >= srch.results[n + 1].score
       /\ \A n \in 1..Len(srch.results) :
             /\ srch.results[n].chunk_id \in Matching
             /\ srch.results[n].score = ScoreOf(srch.results[n].chunk_id)
       /\ Len(srch.results) = Cardinality(Matching) \/ Len(srch.results) = srch.top_k
       /\ \A m \in Matching \ Returned : \A n \in 1..Len(srch.results) :
             ScoreOf(m) <= srch.results[n].score

\* C15: a vector or hybrid search whose query embedding fails does not raise
\* and returns what it returns when the embedding succeeds, and a vector search
\* returns the chunks and scores of the fulltext search.
C15_EmbeddingFailureIsHarmless ==
    /\ (srch.done /\ srch.search_mode \in {"vector", "hybrid"} /\ srch.embed # "ok")
       => /\ ~srch.raised
          /\ srch.results = search("ok", srch.store, srch.query_terms, srch.search_mode,
                                   srch.top_k, srch.score_threshold,
                                   srch.filter_doc_ids).results
    /\ (srch.done /\ srch.search_mode = "vector")
       => /\ ~srch.raised
          /\ ChunksAndScores(srch.results)
             = ChunksAndScores(search("ok", srch.store, srch.query_terms, "fulltext",
                                      srch.top_k, srch.score_threshold,
                                      srch.filter_doc_ids).results)

\* a vector search that returned a chunk although the embedding call was
\* rejected for quota
C15_Witness ==
    /\ srch.done
    /\ srch.search_mode = "vector"
    /\ srch.embed = "QuotaExceededError"
    /\ ~srch.raised
    /\ srch.results # << >>

-----------------------------------------------------------------------------
(* Properties of the team-level calls *)

\* C16: a team-level call rejected because a quota is exhausted, at the
\* pre-call check or at the post-call check-and-record, reaches the caller as
\* the typed quota-exceeded error carrying the violated dimension.
C16_Original ==
    (last.op = "team_call" /\ last.exhausted # "none")
    => (last.outcome = "LLMQuotaExceededError" /\ last.quota_type = last.exhausted)

-----------------------------------------------------------------------------
(* Properties of the preview *)

\* C17: for the same text and the same requested settings, the chunks the
\* preview returns are, chunk by chunk, the chunks process_document_task stores.
\* what the preview item and the stored row both hold of a chunk
ChunkItems(chs) ==
    [i \in 1..Len(chs) |-> [chunk_index |-> chs[i].chunk_index,
                             content |-> chs[i].content,
                             token_count |-> chs[i].token_count]]

C17_Original ==
    (out.previewed /\ out.stored) => ChunkItems(out.preview) = ChunkItems(out.rows)

-----------------------------------------------------------------------------
(* Properties of the knowledge base totals *)

\* C18: after any sequence of ingestion runs, document deletions and
\* single-chunk operations that do not overlap in time, the knowledge base's
\* total_chunks is the sum of its documents' chunk_count and total_tokens the
\* sum of their token_count.
C18_Original ==
    NoTaskPending
    => /\ kb.total_chunks = (IF doc.exists THEN doc.chunk_count ELSE 0)
       /\ kb.total_tokens = (IF doc.exists THEN doc.token_count ELSE 0)

-----------------------------------------------------------------------------
(* Properties of two interleaved check_and_record_usage calls *)

BothRecorded == \A c \in Callers : calls.of[c].pc = "done" /\ calls.of[c].outcome = "ok"
SameStaleCounters ==
    /\ calls.of[1].row.daily_tokens_used = calls.of[2].row.daily_tokens_used
    /\ calls.of[1].row.daily_requests_used = calls.of[2].row.daily_requests_used
TokensOfBoth == calls.of[1].tokens + calls.of[2].tokens
RequestsOfBoth == calls.of[1].requests + calls.of[2].requests
StartOfDay == LazyReset(calls.start, clock)

C20_Original ==
    BothRecorded
    => /\ tm.daily_tokens_used = StartOfDay.daily_tokens_used + TokensOfBoth
       /\ tm.daily_requests_used = StartOfDay.daily_requests_used + RequestsOfBoth

-----------------------------------------------------------------------------
(* Properties of the chunking settings *)

\* the value claimed: the document's override, else the knowledge base's
\* setting, else the hard default
Effective(override, kb_value, default) ==
    IF override # Null THEN override
    ELSE IF job.kb_settings.present THEN kb_value ELSE default

\* C21: process_document_task chunks with the document's override when it has
\* one, otherwise the knowledge base's setting, otherwise 500 / 50, for
\* chunk_size and chunk_overlap independently and for every accepted value.
C21_Original ==
    out.stored
    => /\ out.used.chunk_size
          = Effective(job.process_in.chunk_size, job.kb_settings.chunk_size,
                      DEFAULT_CHUNK_SIZE)
       /\ out.used.chunk_overlap
          = Effective(job.process_in.chunk_overlap, job.kb_settings.chunk_overlap,
                      DEFAULT_CHUNK_OVERLAP)

-----------------------------------------------------------------------------
(* Properties of the end of the tasks *)

\* C22: every dispatched ingestion or embedding task that finds its document
\* terminates with the document in completed or error, so that no document
\* stays in processing: when a task has ended, the document is not processing.
C22_Original ==
    (doc.exists /\ dlast.op \in {"task_end", "embed_task"})
    => doc.status \in {COMPLETED, ERROR}

-----------------------------------------------------------------------------
(* Properties of the fallback loop *)

\* C23: chunk_text terminates for every text and every configuration: each
\* turn of the fixed-width fallback loop that does not leave the loop moves
\* start to a strictly larger offset.
C23_Original ==
    [][(out.pc = "fallback" /\ out'.pc = "fallback") => out'.start > out.start]_vars

-----------------------------------------------------------------------------
(* Properties of the merged list *)

ListedIds(c) ==
    {c.vector_results[i].chunk_id : i \in 1..Len(c.vector_results)}
    \cup {c.fulltext_results[i].chunk_id : i \in 1..Len(c.fulltext_results)}
Appearance(c, id) ==
    LET all == c.vector_results \o c.fulltext_results
    IN CHOOSE i \in 1..Len(all) :
           all[i].chunk_id = id /\ \A j \in 1..(i - 1) : all[j].chunk_id # id

-----------------------------------------------------------------------------
(* Frame of get_usage_stats *)

StoredUsage(r) ==
    <<r.daily_tokens_used, r.monthly_tokens_used, r.daily_requests_used,
      r.monthly_requests_used, r.daily_reset_at, r.monthly_reset_at>>

\* C25: get_usage_stats is read-only: a call leaves the four used counters and
\* both reset timestamps of the stored record unchanged, also when the daily or
\* monthly window has lapsed.
C25_Original ==
    [][last'.op = "get_usage_stats" => StoredUsage(tm') = StoredUsage(tm)]_vars

-----------------------------------------------------------------------------
(* Recording of team-level embedding calls *)

\* the row the pre-call check of a team-level call leaves in hand
PreCallRow == check_quota(tm, clock, 0).rec

\* the call reaches the provider: the model is enabled and the pre-call
\* check_quota did not raise
ProviderInvoked ==
    tm.is_enabled /\ check_quota(tm, clock, 0).outcome # "QuotaExceeded"

\* a token counter of the row already equals its limit when the call begins
TokenCounterAtLimit ==
    \/ PreCallRow.daily_token_limit # Null
       /\ PreCallRow.daily_tokens_used = PreCallRow.daily_token_limit
    \/ PreCallRow.monthly_token_limit # Null
       /\ PreCallRow.monthly_tokens_used = PreCallRow.monthly_token_limit

\* the provider returned its result: the call ended well or was stopped by
\* the check-and-record that follows the provider call
ProviderReturned(l) == l.outcome = "ok" \/ l.exhausted # "none"

\* C26: every team-level embedding call that invokes the provider has its
\* usage recorded (the token and request counters grow by the call's usage),
\* and a team whose token counter already equals its limit is rejected before
\* the provider is invoked.
C26_Original ==
    [][(last'.op = "team_call" /\ ProviderInvoked)
       => /\ ~TokenCounterAtLimit
          /\ ProviderReturned(last')
             => /\ tm'.daily_tokens_used = PreCallRow.daily_tokens_used + last'.tokens
                /\ tm'.monthly_tokens_used = PreCallRow.monthly_tokens_used + last'.tokens
                /\ tm'.daily_requests_used = PreCallRow.daily_requests_used + 1
                /\ tm'.monthly_requests_used = PreCallRow.monthly_requests_used + 1]_vars

-----------------------------------------------------------------------------
(* Daily and monthly counters of one record *)

\* C27: in every reachable state of the tracker (check_quota, record_usage,
\* check_and_record_usage, get_usage_stats and the daily and monthly sweeps, as
\* time advances) the daily counters do not exceed the monthly ones.
C27_Original ==
    /\ tm.daily_tokens_used <= tm.monthly_tokens_used
    /\ tm.daily_requests_used <= tm.monthly_requests_used

-----------------------------------------------------------------------------
(* Totals of the knowledge base *)

\* C28: the knowledge base's total_chunks and total_tokens are never negative
\* in a state reachable by process, process-with-chunks, reprocess and rechunk
\* runs (ending well or failing), document deletions and chunk deletions.
C28_Original ==
    kb.total_chunks >= 0 /\ kb.total_tokens >= 0

-----------------------------------------------------------------------------
(* Size and content of the chunks chunk_text returns *)

\* C29: with chunk_size >= 1 and no custom separators, every chunk returned
\* by chunk_text has at most chars_per_token * (chunk_size + chunk_overlap)
\* characters.
C29_Original ==
    (out.done /\ job.chunk_size >= 1 /\ job.separators = << >>)
    => \A i \in 1..Len(out.chunks) :
          Len(out.chunks[i].content)
              <= chars_per_token * (job.chunk_size + job.chunk_overlap)

\* C30: chunk_text never returns a chunk whose content is the empty string,
\* for any text and any configuration.
C30_Original ==
    out.done => \A i \in 1..Len(out.chunks) : out.chunks[i].content # << >>

====
